---- MODULE Spec2Model ----
(***************************************************************************)
(* Model of scripts/automation/trex_control_plane/stl/console/             *)
(* trex_capture.py: the CaptureManager of the TRex console, the            *)
(* CaptureMonitor objects it creates, the worker thread of each monitor    *)
(* and the pipe writer.  The command thread executes one command at a      *)
(* time; every monitor whose thread was started runs its own worker.       *)
(***************************************************************************)
EXTENDS Integers, Sequences, FiniteSets, TLC

\* ---------------------------------------------------------------- bounds
\* number of CaptureMonitor objects constructed in one run
MaxMonitors == 2
\* cap on a monitor's pkt_count (fetches that would exceed it are not drawn)
MaxPkts == 2
\* largest batch a fetch returns in the model (the code asks for PktLimit)
MaxBatch == 2
\* calls of deinit() made on one pipe writer when the writer is driven on its
\* own (PipeSpec)
MaxDeinits == 3
\* len(pkt_bin) of the packets a fetch returns: a short and a long packet
PktSizes == {1, 2}

\* ------------------------------------------------------ program constants
\* range(5) in CaptureMonitor.__sleep
SleepTicks == 5
\* 'pkt_limit': 10 of the fetch RPC
PktLimit == 10

Mon == 1..MaxMonitors
\* None, for a monitor reference or a capture id
NoMon == 0
NoId == 0

\* holders of the command lock (threading.Lock shared with the console)
LockFree == <<"free", 0>>
LockCmd == <<"cmd", 0>>
LockOf(m) == <<"worker", m>>

Min(a, b) == IF a < b THEN a ELSE b

\* batches a fetch can return: sequences of packet sizes
Batches == UNION {[1..n -> PktSizes] : n \in 0..Min(MaxBatch, PktLimit)}

VARIABLES
    \* CaptureManager
    monitor,        \* self.monitor: a monitor or NoMon
    next_mon,       \* number of CaptureMonitor objects constructed so far
    \* the command thread
    cpc,            \* position of the command thread
    ccmd,           \* command being executed
    ctype,          \* mon_type of the monitor being constructed
    cm,             \* the monitor whose method the command thread is in
    cctor,          \* __stop was called by the constructor's except clause
    cexc,           \* an exception is propagating out of the current call
    cid,            \* local capture_id of __stop
    cfail,          \* the step of __start that raised: "none", "rpc", "writer", "thread"
    cports,         \* opts.tx_port_list or opts.rx_port_list is given
    captures,       \* ids of the last get_capture_status() reply
    mon_table,      \* rows parse_show added to mon_table
    cap_table,      \* rows parse_show added to cap_table
    \* shared with the rest of the console
    cmd_lock,       \* LockFree, LockCmd, or LockOf the monitor whose worker holds it
    \* the client and the server
    connected,      \* client.is_connected()
    sessions,       \* capture ids alive on the server
    srv_next_id,    \* number of ids the server handed out
    fs,             \* monitors whose pipe file exists on the filesystem
    \* CaptureMonitor fields, per monitor
    t,              \* self.t: "none" or "thread"
    writer,         \* self.writer: "none", "stdout", "pipe"
    capture_id,     \* self.capture_id
    active,         \* self.active
    pkt_count,      \* self.pkt_count
    byte_count,     \* self.byte_count
    cnt_set,        \* pkt_count and byte_count have been assigned
    \* CaptureMonitorWriterPipe fields, per monitor
    fifo,           \* self.fifo is an open descriptor
    fifo_name,      \* self.fifo_name is not None
    \* the worker thread of each monitor
    wpc,            \* position of the worker
    tick,           \* loop variable of __sleep
    pkts,           \* batch returned by the last fetch
    wexc,           \* an exception is pending in the try/finally
    werr,           \* the thread ended in an except clause of __thread_cb
    \* history
    deinit_count,   \* calls of deinit() on the monitor's writer
    sum_k,          \* packets of the batches handle_pkts accepted
    sum_b,          \* bytes handle_pkts returned for them
    late_fetch,     \* fetch RPCs of the thread self.t made with self.active False
    late_handle     \* handle_pkts calls of the thread self.t made with self.active False

mgrVars == <<monitor, next_mon>>
cmdVars == <<cpc, ccmd, ctype, cm, cctor, cexc, cid, cfail, cports, captures,
            mon_table, cap_table>>
srvVars == <<sessions, srv_next_id>>
objVars == <<t, writer, capture_id, active>>
pipeVars == <<fifo, fifo_name, fs>>
cntVars == <<pkt_count, byte_count, cnt_set, sum_k, sum_b>>
thrVars == <<wpc, tick, pkts, wexc, werr>>
lateVars == <<late_fetch, late_handle>>
vars == <<mgrVars, cmdVars, cmd_lock, connected, srvVars, objVars, pipeVars,
          cntVars, thrVars, deinit_count, lateVars>>

\* threading.Thread.is_alive()
IsAlive(m) == wpc[m] \notin {"nostart", "done"}

Init ==
    /\ monitor = NoMon
    /\ next_mon = 0
    /\ cpc = "idle"
    /\ ccmd = "none"
    /\ ctype = "compact"
    /\ cm = NoMon
    /\ cctor = FALSE
    /\ cexc = FALSE
    /\ cid = NoId
    /\ cfail = "none"
    /\ cports = FALSE
    /\ captures = {}
    /\ mon_table = {}
    /\ cap_table = {}
    /\ cmd_lock = LockFree
    /\ connected = TRUE
    /\ sessions = {}
    /\ srv_next_id = 0
    /\ fs = {}
    /\ t = [m \in Mon |-> "none"]
    /\ writer = [m \in Mon |-> "none"]
    /\ capture_id = [m \in Mon |-> NoId]
    /\ active = [m \in Mon |-> FALSE]
    /\ pkt_count = [m \in Mon |-> 0]
    /\ byte_count = [m \in Mon |-> 0]
    /\ cnt_set = [m \in Mon |-> FALSE]
    /\ fifo = [m \in Mon |-> FALSE]
    /\ fifo_name = [m \in Mon |-> FALSE]
    /\ wpc = [m \in Mon |-> "nostart"]
    /\ tick = [m \in Mon |-> 0]
    /\ pkts = [m \in Mon |-> <<>>]
    /\ wexc = [m \in Mon |-> FALSE]
    /\ werr = [m \in Mon |-> FALSE]
    /\ deinit_count = [m \in Mon |-> 0]
    /\ sum_k = [m \in Mon |-> 0]
    /\ sum_b = [m \in Mon |-> 0]
    /\ late_fetch = [m \in Mon |-> 0]
    /\ late_handle = [m \in Mon |-> 0]

\* ------------------------------------------------------------ the worker
\* everything but the worker's own position and the counters
WorkerFrame ==
    UNCHANGED <<mgrVars, cmdVars, connected, srvVars, objVars, pipeVars, deinit_count>>

\* __thread_cb: an exception of the main loop is logged and the thread ends
ThreadEnd(m, err) ==
    /\ wpc' = [wpc EXCEPT ![m] = "done"]
    /\ werr' = [werr EXCEPT ![m] = err]

\* __thread_main_loop, lines 346-347
ThreadInit(m) ==
    /\ wpc[m] = "init"
    /\ pkt_count' = [pkt_count EXCEPT ![m] = 0]
    /\ byte_count' = [byte_count EXCEPT ![m] = 0]
    /\ cnt_set' = [cnt_set EXCEPT ![m] = TRUE]
    /\ wpc' = [wpc EXCEPT ![m] = "while"]
    /\ UNCHANGED <<tick, pkts, wexc, werr, sum_k, sum_b, cmd_lock>>
    /\ UNCHANGED lateVars
    /\ WorkerFrame

\* a main loop that does not test the flag: while True
ThreadWhile_Forever(m) ==
    /\ wpc[m] = "while"
    /\ wpc' = [wpc EXCEPT ![m] = "sleep"]
    /\ tick' = [tick EXCEPT ![m] = 0]
    /\ UNCHANGED <<pkts, wexc, werr, cntVars, cmd_lock>>
    /\ UNCHANGED lateVars
    /\ WorkerFrame

\* while self.active
ThreadWhile(m) ==
    /\ wpc[m] = "while"
    /\ IF active[m]
       THEN /\ wpc' = [wpc EXCEPT ![m] = "sleep"]
            /\ tick' = [tick EXCEPT ![m] = 0]
            /\ werr' = werr
       ELSE /\ ThreadEnd(m, FALSE)
            /\ tick' = tick
    /\ UNCHANGED <<pkts, wexc, cntVars, cmd_lock>>
    /\ UNCHANGED lateVars
    /\ WorkerFrame

\* __sleep: one iteration of the for loop; the last one returns True (the
\* loop variable is gone when __sleep returns)
ThreadSleep(m) ==
    /\ wpc[m] = "sleep"
    /\ IF ~active[m]
       THEN /\ ThreadEnd(m, FALSE)
            /\ tick' = [tick EXCEPT ![m] = 0]
       ELSE IF tick[m] + 1 < SleepTicks
       THEN /\ tick' = [tick EXCEPT ![m] = tick[m] + 1]
            /\ UNCHANGED <<wpc, werr>>
       ELSE /\ tick' = [tick EXCEPT ![m] = 0]
            /\ wpc' = [wpc EXCEPT ![m] = "check"]
            /\ werr' = werr
    /\ UNCHANGED <<pkts, wexc, cntVars, cmd_lock>>
    /\ UNCHANGED lateVars
    /\ WorkerFrame

\* writer.periodic_check(): the pipe writer raises when the poll reports a
\* hangup, the stdout writer never does; a dropped writer is an
\* AttributeError
ThreadPeriodicCheck(m) ==
    /\ wpc[m] = "check"
    /\ \E hup \in BOOLEAN :
          /\ hup => writer[m] = "pipe"
          /\ IF hup \/ writer[m] = "none"
             THEN ThreadEnd(m, TRUE)
             ELSE /\ wpc' = [wpc EXCEPT ![m] = "lock"]
                  /\ werr' = werr
    /\ UNCHANGED <<tick, pkts, wexc, cntVars, cmd_lock>>
    /\ UNCHANGED lateVars
    /\ WorkerFrame

\* a __lock that takes no account of the result of acquire
ThreadLock_NoAcquire(m) ==
    /\ wpc[m] = "lock"
    /\ cmd_lock' = IF cmd_lock = LockFree THEN LockOf(m) ELSE cmd_lock
    /\ wpc' = [wpc EXCEPT ![m] = "conn"]
    /\ UNCHANGED <<tick, pkts, wexc, werr, cntVars>>
    /\ UNCHANGED lateVars
    /\ WorkerFrame

\* a __lock that retries without looking at the active flag
ThreadLock_Blocking(m) ==
    /\ wpc[m] = "lock"
    /\ IF cmd_lock = LockFree
       THEN /\ cmd_lock' = LockOf(m)
            /\ wpc' = [wpc EXCEPT ![m] = "conn"]
       ELSE UNCHANGED <<cmd_lock, wpc>>
    /\ UNCHANGED <<tick, pkts, wexc, werr, cntVars>>
    /\ UNCHANGED lateVars
    /\ WorkerFrame

\* __lock: one iteration of the polling loop
ThreadLock(m) ==
    /\ wpc[m] = "lock"
    /\ IF cmd_lock = LockFree
       THEN /\ cmd_lock' = LockOf(m)
            /\ wpc' = [wpc EXCEPT ![m] = "conn"]
            /\ werr' = werr
       ELSE IF ~active[m]
       THEN /\ ThreadEnd(m, FALSE)
            /\ cmd_lock' = cmd_lock
       ELSE UNCHANGED <<cmd_lock, wpc, werr>>
    /\ UNCHANGED <<tick, pkts, wexc, cntVars>>
    /\ UNCHANGED lateVars
    /\ WorkerFrame

\* if not self.client.is_connected(): raise
ThreadIsConnected(m) ==
    /\ wpc[m] = "conn"
    /\ IF connected
       THEN /\ wpc' = [wpc EXCEPT ![m] = "fetch"]
            /\ wexc' = wexc
       ELSE /\ wpc' = [wpc EXCEPT ![m] = "unlock"]
            /\ wexc' = [wexc EXCEPT ![m] = TRUE]
    /\ UNCHANGED <<tick, pkts, werr, cntVars, cmd_lock>>
    /\ UNCHANGED lateVars
    /\ WorkerFrame

\* rc = self.client._transmit("capture", fetch): a failed rc raises
ThreadFetch(m) ==
    /\ wpc[m] = "fetch"
    /\ \/ /\ wexc' = [wexc EXCEPT ![m] = TRUE]
          /\ pkts' = pkts
       \/ /\ connected
          /\ \E b \in Batches :
                /\ pkt_count[m] + Len(b) <= MaxPkts
                /\ pkts' = [pkts EXCEPT ![m] = b]
          /\ wexc' = wexc
    /\ wpc' = [wpc EXCEPT ![m] = "unlock"]
    /\ late_fetch' = [late_fetch EXCEPT ![m] = IF active[m] THEN @ ELSE @ + 1]
    /\ UNCHANGED <<tick, werr, cntVars, cmd_lock, late_handle>>
    /\ WorkerFrame

\* an unlock that is skipped when the try block raised
ThreadUnlock_NoFinally(m) ==
    /\ wpc[m] = "unlock"
    /\ IF wexc[m]
       THEN /\ ThreadEnd(m, TRUE)
            /\ cmd_lock' = cmd_lock
       ELSE /\ wpc' = [wpc EXCEPT ![m] = "pkts"]
            /\ werr' = werr
            /\ cmd_lock' = LockFree
    /\ wexc' = [wexc EXCEPT ![m] = FALSE]
    /\ UNCHANGED <<tick, pkts, cntVars>>
    /\ UNCHANGED lateVars
    /\ WorkerFrame

\* finally: self.__unlock(); a pending exception then ends the thread
ThreadUnlock(m) ==
    /\ wpc[m] = "unlock"
    /\ cmd_lock' = LockFree
    /\ IF wexc[m]
       THEN ThreadEnd(m, TRUE)
       ELSE /\ wpc' = [wpc EXCEPT ![m] = "pkts"]
            /\ werr' = werr
    /\ wexc' = [wexc EXCEPT ![m] = FALSE]
    /\ UNCHANGED <<tick, pkts, cntVars>>
    /\ UNCHANGED lateVars
    /\ WorkerFrame

\* a loop that hands every batch to the writer, the empty one too
ThreadPkts_NoSkip(m) ==
    /\ wpc[m] = "pkts"
    /\ wpc' = [wpc EXCEPT ![m] = "handle"]
    /\ UNCHANGED <<tick, pkts, wexc, werr, cntVars, cmd_lock>>
    /\ UNCHANGED lateVars
    /\ WorkerFrame

\* if not pkts: continue
ThreadPkts(m) ==
    /\ wpc[m] = "pkts"
    /\ IF pkts[m] = <<>>
       THEN wpc' = [wpc EXCEPT ![m] = "while"]
       ELSE wpc' = [wpc EXCEPT ![m] = "handle"]
    /\ UNCHANGED <<tick, pkts, wexc, werr, cntVars, cmd_lock>>
    /\ UNCHANGED lateVars
    /\ WorkerFrame

\* handle_pkts: the sum of len(pkt_bin) over the batch
RECURSIVE HandlePktsBytes(_)
HandlePktsBytes(b) ==
    IF b = <<>> THEN 0 ELSE Head(b) + HandlePktsBytes(Tail(b))

\* a packet counter that counts batches
CountPkts_One(old, batch) == old + 1

\* self.pkt_count += len(pkts)
CountPkts(old, batch) == old + Len(batch)

\* self.byte_count += byte_count
CountBytes(old, bc) == old + bc

\* a loop that counts the batch before it hands it to the writer
ThreadHandlePkts_CountsFirst(m) ==
    /\ wpc[m] = "handle"
    /\ LET bc == HandlePktsBytes(pkts[m]) IN
          /\ pkt_count' = [pkt_count EXCEPT ![m] = CountPkts(pkt_count[m], pkts[m])]
          /\ byte_count' = [byte_count EXCEPT ![m] = CountBytes(byte_count[m], bc)]
          /\ sum_k' = [sum_k EXCEPT ![m] = sum_k[m] + Len(pkts[m])]
          /\ sum_b' = [sum_b EXCEPT ![m] = sum_b[m] + bc]
    /\ cnt_set' = cnt_set
    /\ \/ ThreadEnd(m, TRUE)
       \/ /\ writer[m] # "none"
          /\ wpc' = [wpc EXCEPT ![m] = "while"]
          /\ werr' = werr
    /\ pkts' = [pkts EXCEPT ![m] = <<>>]
    /\ late_handle' = [late_handle EXCEPT ![m] = IF active[m] THEN @ ELSE @ + 1]
    /\ UNCHANGED <<tick, wexc, cmd_lock, late_fetch>>
    /\ WorkerFrame

\* byte_count = self.writer.handle_pkts(pkts), then the two counters; a
\* handle_pkts that raises ends the thread before they are touched
ThreadHandlePkts(m) ==
    /\ wpc[m] = "handle"
    /\ \/ /\ ThreadEnd(m, TRUE)
          /\ UNCHANGED cntVars
       \/ /\ writer[m] # "none"
          /\ LET bc == HandlePktsBytes(pkts[m]) IN
                /\ pkt_count' = [pkt_count EXCEPT ![m] = CountPkts(pkt_count[m], pkts[m])]
                /\ byte_count' = [byte_count EXCEPT ![m] = CountBytes(byte_count[m], bc)]
                /\ sum_k' = [sum_k EXCEPT ![m] = sum_k[m] + Len(pkts[m])]
                /\ sum_b' = [sum_b EXCEPT ![m] = sum_b[m] + bc]
          /\ cnt_set' = cnt_set
          /\ wpc' = [wpc EXCEPT ![m] = "while"]
          /\ werr' = werr
    /\ pkts' = [pkts EXCEPT ![m] = <<>>]
    /\ late_handle' = [late_handle EXCEPT ![m] = IF active[m] THEN @ ELSE @ + 1]
    /\ UNCHANGED <<tick, wexc, cmd_lock, late_fetch>>
    /\ WorkerFrame

Worker(m) ==
    \/ ThreadInit(m)
    \/ ThreadWhile(m)
    \/ ThreadSleep(m)
    \/ ThreadPeriodicCheck(m)
    \/ ThreadLock(m)
    \/ ThreadIsConnected(m)
    \/ ThreadFetch(m)
    \/ ThreadUnlock(m)
    \/ ThreadPkts(m)
    \/ ThreadHandlePkts(m)

\* ------------------------------------------------------ the pipe writer
\* the steps of CaptureMonitorWriterPipe.__init__ that can raise
PipeSteps == {"mkfifo", "open", "pcap", "poll"}

\* the exception classes a step raises: os.mkfifo and os.open raise OSError,
\* the blocking open is where the user interrupts, the pcap writer and the
\* poller are library calls that also raise other classes (IOError is not an
\* OSError under Python 2, which the file supports at line 34)
PipeRaises(step) ==
    CASE step = "mkfifo" -> {"OSError"}
      [] step = "open" -> {"OSError", "KeyboardInterrupt"}
      [] step = "pcap" -> {"OSError", "KeyboardInterrupt", "Other"}
      [] step = "poll" -> {"OSError", "Other"}

\* the except clauses of lines 128 and 133
PipeCaught(exc) == exc \in {"KeyboardInterrupt", "OSError"}

\* os.mkfifo has returned when a later step raises
PipeCreated(step) == step # "mkfifo"

\* os.open has returned when a later step raises
PipeOpened(step) == step \in {"pcap", "poll"}

\* a deinit that closes the descriptor and leaves self.fifo set
PipeDeinit_KeepsFifo(f, n, x) ==
    [fifo |-> f,
     fifo_name |-> IF n /\ x THEN FALSE ELSE n,
     file |-> IF n THEN FALSE ELSE x]

\* CaptureMonitorWriterPipe.deinit on a writer with fields f (fifo open),
\* n (fifo_name set), and x (the file exists): the close, then the unlink,
\* whose OSError on a missing file is swallowed before fifo_name is cleared
PipeDeinit(f, n, x) ==
    [fifo |-> FALSE,
     fifo_name |-> IF n /\ x THEN FALSE ELSE n,
     file |-> IF n THEN FALSE ELSE x]

\* deinit calls os.close when self.fifo is set
PipeDeinitCloses(f) == f

\* deinit calls os.unlink when self.fifo_name is set
PipeDeinitUnlinks(n) == n

\* what the body of deinit raises: os.unlink on a path that does not exist
PipeDeinitRaises(n, x) == IF n /\ ~x THEN {"OSError"} ELSE {}

\* except OSError: pass
PipeDeinitCaught == {"OSError"}

\* an exception leaves deinit
PipeDeinitEscapes(n, x) == PipeDeinitRaises(n, x) \ PipeDeinitCaught # {}

\* ------------------------------------------------- the command thread
CmdFrame ==
    UNCHANGED <<cntVars, tick, pkts, wexc, werr, lateVars>>

\* the last reference to monitor m is gone (self.monitor = None after its
\* stop(), or its constructor raised) and its thread has ended: the object
\* and its writer object are unreachable, their fields return to the values
\* of Init.  The file of a pipe is not a field: it stays.
Unreferenced(m) ==
    /\ t' = [t EXCEPT ![m] = "none"]
    /\ writer' = [writer EXCEPT ![m] = "none"]
    /\ capture_id' = [capture_id EXCEPT ![m] = NoId]
    /\ active' = [active EXCEPT ![m] = FALSE]
    /\ pkt_count' = [pkt_count EXCEPT ![m] = 0]
    /\ byte_count' = [byte_count EXCEPT ![m] = 0]
    /\ cnt_set' = [cnt_set EXCEPT ![m] = FALSE]
    /\ sum_k' = [sum_k EXCEPT ![m] = 0]
    /\ sum_b' = [sum_b EXCEPT ![m] = 0]
    /\ fifo' = [fifo EXCEPT ![m] = FALSE]
    /\ fifo_name' = [fifo_name EXCEPT ![m] = FALSE]
    /\ wpc' = [wpc EXCEPT ![m] = "nostart"]
    /\ tick' = [tick EXCEPT ![m] = 0]
    /\ pkts' = [pkts EXCEPT ![m] = <<>>]
    /\ wexc' = [wexc EXCEPT ![m] = FALSE]
    /\ werr' = [werr EXCEPT ![m] = FALSE]
    /\ deinit_count' = [deinit_count EXCEPT ![m] = 0]
    /\ late_fetch' = [late_fetch EXCEPT ![m] = 0]
    /\ late_handle' = [late_handle EXCEPT ![m] = 0]

\* the monitor stays referenced
Kept ==
    UNCHANGED <<objVars, cntVars, fifo, fifo_name, thrVars, deinit_count, lateVars>>

\* an RPC succeeds only while the client is connected, and may fail then too
RpcOutcomes == IF connected THEN BOOLEAN ELSE {FALSE}

MonTypes == {"compact", "verbose", "pipe"}

\* the console takes the command lock and dispatches a capture command
ConsolePrecmd ==
    /\ cpc = "idle"
    /\ cmd_lock = LockFree
    /\ \E c \in {"mon_start", "mon_stop", "clear", "show"} :
          /\ c = "mon_start" => next_mon < MaxMonitors
          /\ ccmd' = c
          /\ \E ports \in BOOLEAN :
                /\ ports => c = "mon_start"
                /\ cports' = ports
    /\ cmd_lock' = LockCmd
    /\ cpc' = "dispatch"
    /\ UNCHANGED <<ctype, cm, cctor, cexc, cid, cfail, captures, mon_table, cap_table>>
    /\ UNCHANGED <<mgrVars, connected, srvVars, objVars, pipeVars, thrVars, wpc,
                   deinit_count>>
    /\ CmdFrame

\* the console calls CaptureManager.stop() when it exits its command loop,
\* outside the command lock
ConsoleStop ==
    /\ cpc = "idle"
    /\ ccmd' = "stop"
    /\ cpc' = "dispatch"
    /\ UNCHANGED <<ctype, cm, cctor, cexc, cid, cfail, cmd_lock, cports, captures,
                   mon_table, cap_table>>
    /\ UNCHANGED <<mgrVars, connected, srvVars, objVars, pipeVars, wpc, deinit_count>>
    /\ CmdFrame

\* the command returned or raised: the console releases the lock it took
ConsolePostcmd ==
    /\ cpc = "cmd_done"
    /\ cmd_lock' = IF cmd_lock = LockCmd THEN LockFree ELSE cmd_lock
    /\ cpc' = "idle"
    /\ ccmd' = "none"
    /\ ctype' = "compact"
    /\ cm' = NoMon
    /\ cctor' = FALSE
    /\ cexc' = FALSE
    /\ cid' = NoId
    /\ cfail' = "none"
    /\ cports' = FALSE
    /\ captures' = {}
    /\ mon_table' = {}
    /\ cap_table' = {}
    /\ UNCHANGED <<mgrVars, connected, srvVars, objVars, pipeVars, wpc, deinit_count>>
    /\ CmdFrame

\* what a step of the command thread inside a monitor method leaves alone
LocalsFrame ==
    /\ UNCHANGED <<ccmd, ctype, cmd_lock, cports, mon_table, cap_table>>
    /\ CmdFrame

\* the same for a step that makes no status query
CallFrame ==
    /\ LocalsFrame
    /\ UNCHANGED captures

\* the same for a step that follows the return of __stop (its local list of
\* captures is gone) and may drop the last reference to a monitor
ReturnFrame ==
    /\ captures' = {}
    /\ UNCHANGED <<ccmd, ctype, cmd_lock, next_mon, cm, cctor, cexc, cid, cfail,
                cports, mon_table, cap_table, connected, srvVars, fs>>

\* a call of monitor.stop() on the manager's monitor
CallStop ==
    /\ cm' = monitor
    /\ cctor' = FALSE
    /\ cexc' = FALSE
    /\ cpc' = "stop_thread"

\* a parse_monitor_start that constructs the new monitor without stopping
\* the one it holds
ParseMonitorStart_NoStop ==
    /\ cpc = "dispatch"
    /\ ccmd = "mon_start"
    /\ cpc' = IF cports THEN "new" ELSE "cmd_done"
    /\ UNCHANGED <<cm, cctor, cexc>>
    /\ UNCHANGED <<cid, cfail, mgrVars, connected, srvVars, objVars, pipeVars, wpc,
                   deinit_count>>
    /\ CallFrame

\* a parse_monitor_start that stops the held monitor before it looks at the
\* port lists
ParseMonitorStart_LateCheck ==
    /\ cpc = "dispatch"
    /\ ccmd = "mon_start"
    /\ IF monitor # NoMon
       THEN CallStop
       ELSE /\ cpc' = IF cports THEN "new" ELSE "cmd_done"
            /\ UNCHANGED <<cm, cctor, cexc>>
    /\ UNCHANGED <<cid, cfail, mgrVars, connected, srvVars, objVars, pipeVars, wpc,
                   deinit_count>>
    /\ CallFrame

\* parse_monitor_start up to the constructor call
ParseMonitorStart ==
    /\ cpc = "dispatch"
    /\ ccmd = "mon_start"
    /\ IF ~cports
       THEN /\ cpc' = "cmd_done"
            /\ UNCHANGED <<cm, cctor, cexc>>
       ELSE IF monitor # NoMon
       THEN CallStop
       ELSE /\ cpc' = "new"
            /\ UNCHANGED <<cm, cctor, cexc>>
    /\ UNCHANGED <<cid, cfail, mgrVars, connected, srvVars, objVars, pipeVars, wpc,
                   deinit_count>>
    /\ CallFrame

\* parse_monitor_start after monitor.stop(): self.monitor = None, or the
\* exception of stop() ends the command
ParseMonitorStartStopped ==
    /\ cpc = "stop_done"
    /\ ~cctor
    /\ ccmd = "mon_start"
    /\ IF cexc
       THEN /\ cpc' = "cmd_done"
            /\ monitor' = monitor
            /\ Kept
       ELSE /\ cpc' = "new"
            /\ monitor' = NoMon
            /\ Unreferenced(monitor)
    /\ ReturnFrame

\* CaptureMonitor.__init__ up to the call of __start, with the mon_type
\* parse_monitor_start derived from the command line
MonitorInit ==
    /\ cpc = "new"
    /\ next_mon < MaxMonitors
    /\ \E ty \in MonTypes : ctype' = ty
    /\ next_mon' = next_mon + 1
    /\ cm' = next_mon + 1
    /\ t' = [t EXCEPT ![next_mon + 1] = "none"]
    /\ writer' = [writer EXCEPT ![next_mon + 1] = "none"]
    /\ capture_id' = [capture_id EXCEPT ![next_mon + 1] = NoId]
    /\ cpc' = "start_rpc"
    /\ UNCHANGED <<monitor, cctor, cexc, cid, cfail, connected, srvVars, active,
                   pipeVars, wpc, deinit_count>>
    /\ UNCHANGED <<ccmd, cmd_lock, cports, captures, mon_table, cap_table>>
    /\ CmdFrame

\* the except clause of __init__: self.__stop(), then raise
Rollback(step) ==
    /\ cfail' = step
    /\ cctor' = TRUE
    /\ cexc' = FALSE
    /\ cpc' = "stop_thread"

\* __start: client.start_capture and the two fields it sets
StartCapture ==
    /\ cpc = "start_rpc"
    /\ \E ok \in RpcOutcomes :
          IF ok
          THEN /\ srv_next_id' = srv_next_id + 1
               /\ sessions' = sessions \cup {srv_next_id + 1}
               /\ capture_id' = [capture_id EXCEPT ![cm] = srv_next_id + 1]
               /\ cpc' = "start_writer"
               /\ UNCHANGED <<cctor, cexc, cfail>>
          ELSE /\ Rollback("rpc")
               /\ UNCHANGED <<srvVars, capture_id>>
    /\ UNCHANGED <<mgrVars, cm, cid, connected, t, writer, active, pipeVars, wpc,
                   deinit_count>>
    /\ CallFrame

\* __start: the construction of a stdout writer
StartWriterStdout ==
    /\ cpc = "start_writer"
    /\ ctype \in {"compact", "verbose"}
    /\ writer' = [writer EXCEPT ![cm] = "stdout"]
    /\ cpc' = "start_thread"
    /\ UNCHANGED <<mgrVars, cm, cctor, cexc, cid, cfail, connected, srvVars, t,
                   capture_id, active, pipeVars, wpc, deinit_count>>
    /\ CallFrame

\* __start: the construction of a pipe writer that completes
StartWriterPipe ==
    /\ cpc = "start_writer"
    /\ ctype = "pipe"
    /\ fs' = fs \cup {cm}
    /\ fifo' = [fifo EXCEPT ![cm] = TRUE]
    /\ fifo_name' = [fifo_name EXCEPT ![cm] = TRUE]
    /\ writer' = [writer EXCEPT ![cm] = "pipe"]
    /\ cpc' = "start_thread"
    /\ UNCHANGED <<mgrVars, cm, cctor, cexc, cid, cfail, connected, srvVars, t,
                   capture_id, active, wpc, deinit_count>>
    /\ CallFrame

\* the pipe writer after its constructor raised exc at step: the except
\* clauses of the constructor run deinit, any other exception leaves it as is
PipeAfterFailure(step, exc) ==
    IF PipeCaught(exc)
    THEN PipeDeinit(PipeOpened(step), TRUE, PipeCreated(step))
    ELSE [fifo |-> PipeOpened(step), fifo_name |-> TRUE, file |-> PipeCreated(step)]

\* __start: the construction of a pipe writer that raises; self.writer is
\* never assigned
StartWriterPipeFails ==
    /\ cpc = "start_writer"
    /\ ctype = "pipe"
    /\ \E step \in PipeSteps :
       \E exc \in PipeRaises(step) :
          LET w == PipeAfterFailure(step, exc) IN
             /\ fs' = IF w.file THEN fs \cup {cm} ELSE fs \ {cm}
             /\ fifo' = [fifo EXCEPT ![cm] = w.fifo]
             /\ fifo_name' = [fifo_name EXCEPT ![cm] = w.fifo_name]
             /\ deinit_count' = [deinit_count EXCEPT
                   ![cm] = IF PipeCaught(exc) THEN deinit_count[cm] + 1
                           ELSE deinit_count[cm]]
    /\ Rollback("writer")
    /\ UNCHANGED <<mgrVars, cm, cid, connected, srvVars, objVars, wpc>>
    /\ CallFrame

\* __start: an unknown writer type raises; parse_monitor_start passes only
\* the three types of MonTypes, so this branch is not part of Next
StartWriterUnknown ==
    /\ cpc = "start_writer"
    /\ ctype \notin MonTypes
    /\ Rollback("writer")
    /\ UNCHANGED <<mgrVars, cm, cid, connected, srvVars, objVars, pipeVars, wpc,
                   deinit_count>>
    /\ CallFrame

\* __start: the thread is created, active is set and the thread is started;
\* on return parse_monitor_start stores the monitor
StartThread ==
    /\ cpc = "start_thread"
    /\ t' = [t EXCEPT ![cm] = "thread"]
    /\ active' = [active EXCEPT ![cm] = TRUE]
    /\ \/ /\ wpc' = [wpc EXCEPT ![cm] = "init"]
          /\ monitor' = cm
          /\ cpc' = "cmd_done"
          /\ UNCHANGED <<cctor, cexc, cfail>>
       \/ /\ Rollback("thread")
          /\ UNCHANGED <<wpc, monitor>>
    /\ UNCHANGED <<next_mon, cm, cid, connected, srvVars, writer, capture_id,
                   pipeVars, deinit_count>>
    /\ CallFrame

\* a __stop that clears the flag and goes on without joining the thread
StopThread_NoJoin ==
    /\ cpc = "stop_thread"
    /\ IF t[cm] = "thread" /\ IsAlive(cm)
       THEN active' = [active EXCEPT ![cm] = FALSE]
       ELSE active' = active
    /\ cpc' = "stop_writer"
    /\ UNCHANGED <<mgrVars, cm, cctor, cexc, cid, cfail, connected, srvVars, t, writer,
                   capture_id, pipeVars, wpc, deinit_count>>
    /\ CallFrame

\* a __stop that clears the capture id before it joins the thread
StopThread_ClearsId ==
    /\ cpc = "stop_thread"
    /\ IF t[cm] = "thread" /\ IsAlive(cm)
       THEN /\ active' = [active EXCEPT ![cm] = FALSE]
            /\ cpc' = "stop_join"
       ELSE /\ active' = active
            /\ cpc' = "stop_writer"
    /\ capture_id' = [capture_id EXCEPT ![cm] = NoId]
    /\ UNCHANGED <<mgrVars, cm, cctor, cexc, cid, cfail, connected, srvVars, t, writer,
                   pipeVars, wpc, deinit_count>>
    /\ CallFrame

\* __stop: if self.t and self.t.is_alive(): self.active = False
StopThread ==
    /\ cpc = "stop_thread"
    /\ IF t[cm] = "thread" /\ IsAlive(cm)
       THEN /\ active' = [active EXCEPT ![cm] = FALSE]
            /\ cpc' = "stop_join"
       ELSE /\ active' = active
            /\ cpc' = "stop_writer"
    /\ UNCHANGED <<mgrVars, cm, cctor, cexc, cid, cfail, connected, srvVars, t, writer,
                   capture_id, pipeVars, wpc, deinit_count>>
    /\ CallFrame

\* __stop: self.t.join(); self.t = None (the history of the thread goes
\* with the thread object)
StopJoin ==
    /\ cpc = "stop_join"
    /\ ~IsAlive(cm)
    /\ t' = [t EXCEPT ![cm] = "none"]
    /\ cpc' = "stop_writer"
    /\ late_fetch' = [late_fetch EXCEPT ![cm] = 0]
    /\ late_handle' = [late_handle EXCEPT ![cm] = 0]
    /\ UNCHANGED <<mgrVars, cm, cctor, cexc, cid, cfail, connected, srvVars, writer,
                   capture_id, active, pipeVars, wpc, deinit_count>>
    /\ UNCHANGED <<ccmd, ctype, cmd_lock, cports, captures, mon_table, cap_table>>
    /\ UNCHANGED <<cntVars, tick, pkts, wexc, werr>>

\* a __stop that leaves self.writer set after deinit
StopWriter_KeepsWriter ==
    /\ cpc = "stop_writer"
    /\ IF writer[cm] # "none"
       THEN /\ deinit_count' = [deinit_count EXCEPT ![cm] = deinit_count[cm] + 1]
            /\ writer' = writer
            /\ IF writer[cm] = "pipe"
               THEN LET w == PipeDeinit(fifo[cm], fifo_name[cm], cm \in fs) IN
                       /\ fs' = IF w.file THEN fs ELSE fs \ {cm}
                       /\ fifo' = [fifo EXCEPT ![cm] = w.fifo]
                       /\ fifo_name' = [fifo_name EXCEPT ![cm] = w.fifo_name]
               ELSE UNCHANGED pipeVars
       ELSE UNCHANGED <<deinit_count, writer, pipeVars>>
    /\ cpc' = "stop_id"
    /\ UNCHANGED <<mgrVars, cm, cctor, cexc, cid, cfail, connected, srvVars, t,
                   capture_id, active, wpc>>
    /\ CallFrame

\* __stop: if self.writer: self.writer.deinit(); self.writer = None
StopWriter ==
    /\ cpc = "stop_writer"
    /\ IF writer[cm] # "none"
       THEN /\ deinit_count' = [deinit_count EXCEPT ![cm] = deinit_count[cm] + 1]
            /\ writer' = [writer EXCEPT ![cm] = "none"]
            /\ IF writer[cm] = "pipe"
               THEN LET w == PipeDeinit(fifo[cm], fifo_name[cm], cm \in fs) IN
                       /\ fs' = IF w.file THEN fs ELSE fs \ {cm}
                       /\ fifo' = [fifo EXCEPT ![cm] = w.fifo]
                       /\ fifo_name' = [fifo_name EXCEPT ![cm] = w.fifo_name]
               ELSE UNCHANGED pipeVars
       ELSE UNCHANGED <<deinit_count, writer, pipeVars>>
    /\ cpc' = "stop_id"
    /\ UNCHANGED <<mgrVars, cm, cctor, cexc, cid, cfail, connected, srvVars, t,
                   capture_id, active, wpc>>
    /\ CallFrame

\* a __stop that reads the capture id and leaves the field set
StopTakeId_KeepsId ==
    /\ cpc = "stop_id"
    /\ cid' = capture_id[cm]
    /\ cpc' = IF connected THEN "stop_status" ELSE "stop_done"
    /\ UNCHANGED <<mgrVars, cm, cctor, cexc, cfail, connected, srvVars, objVars,
                   pipeVars, wpc, deinit_count>>
    /\ CallFrame

\* __stop: the capture id is taken and cleared; a disconnected client returns
StopTakeId ==
    /\ cpc = "stop_id"
    /\ cid' = capture_id[cm]
    /\ capture_id' = [capture_id EXCEPT ![cm] = NoId]
    /\ cpc' = IF connected THEN "stop_status" ELSE "stop_done"
    /\ UNCHANGED <<mgrVars, cm, cctor, cexc, cfail, connected, srvVars, t, writer,
                   active, pipeVars, wpc, deinit_count>>
    /\ CallFrame

\* a __stop that stops the capture whatever the status reply lists
StopStatus_NoMembership ==
    /\ cpc = "stop_status"
    /\ \E ok \in RpcOutcomes :
          IF ok
          THEN /\ captures' = sessions
               /\ cpc' = "stop_rpc"
               /\ cexc' = cexc
          ELSE /\ captures' = captures
               /\ cpc' = "stop_done"
               /\ cexc' = TRUE
    /\ UNCHANGED <<mgrVars, cm, cctor, cid, cfail, connected, srvVars, objVars,
                   pipeVars, wpc, deinit_count>>
    /\ LocalsFrame

\* __stop: client.get_capture_status() and the membership test
StopStatus ==
    /\ cpc = "stop_status"
    /\ \E ok \in RpcOutcomes :
          IF ok
          THEN /\ captures' = sessions
               /\ cpc' = IF cid \in captures' THEN "stop_rpc" ELSE "stop_done"
               /\ cexc' = cexc
          ELSE /\ captures' = captures
               /\ cpc' = "stop_done"
               /\ cexc' = TRUE
    /\ UNCHANGED <<mgrVars, cm, cctor, cid, cfail, connected, srvVars, objVars,
                   pipeVars, wpc, deinit_count>>
    /\ LocalsFrame

\* __stop: client.stop_capture(capture_id)
StopCapture ==
    /\ cpc = "stop_rpc"
    /\ \E ok \in RpcOutcomes :
          IF ok
          THEN /\ sessions' = sessions \ {cid}
               /\ cexc' = cexc
          ELSE /\ sessions' = sessions
               /\ cexc' = TRUE
    /\ cpc' = "stop_done"
    /\ UNCHANGED <<mgrVars, cm, cctor, cid, cfail, connected, srv_next_id, objVars,
                   pipeVars, wpc, deinit_count>>
    /\ CallFrame

\* __init__: raise, after __stop returned or raised; parse_monitor_start
\* does not assign self.monitor
CtorReraise ==
    /\ cpc = "stop_done"
    /\ cctor
    /\ cpc' = "cmd_done"
    /\ monitor' = monitor
    /\ Unreferenced(cm)
    /\ ReturnFrame

\* parse_monitor_stop and CaptureManager.stop, up to monitor.stop()
ParseMonitorStop ==
    /\ cpc = "dispatch"
    /\ ccmd \in {"mon_stop", "stop"}
    /\ IF monitor # NoMon
       THEN CallStop
       ELSE /\ cpc' = "cmd_done"
            /\ UNCHANGED <<cm, cctor, cexc>>
    /\ UNCHANGED <<cid, cfail, mgrVars, connected, srvVars, objVars, pipeVars, wpc,
                   deinit_count>>
    /\ CallFrame

\* parse_monitor_stop and CaptureManager.stop after monitor.stop()
ParseMonitorStopStopped ==
    /\ cpc = "stop_done"
    /\ ~cctor
    /\ ccmd \in {"mon_stop", "stop"}
    /\ IF cexc
       THEN /\ monitor' = monitor
            /\ Kept
       ELSE /\ monitor' = NoMon
            /\ Unreferenced(monitor)
    /\ cpc' = "cmd_done"
    /\ ReturnFrame

\* parse_clear up to monitor.stop()
ParseClear ==
    /\ cpc = "dispatch"
    /\ ccmd = "clear"
    /\ IF monitor # NoMon
       THEN CallStop
       ELSE /\ cpc' = "clear_rpc"
            /\ UNCHANGED <<cm, cctor, cexc>>
    /\ UNCHANGED <<cid, cfail, mgrVars, connected, srvVars, objVars, pipeVars, wpc,
                   deinit_count>>
    /\ CallFrame

\* a parse_clear that goes on to the remove-all RPC when stop() raised
ParseClearStopped_IgnoresError ==
    /\ cpc = "stop_done"
    /\ ~cctor
    /\ ccmd = "clear"
    /\ cpc' = "clear_rpc"
    /\ IF cexc
       THEN /\ monitor' = monitor
            /\ Kept
       ELSE /\ monitor' = NoMon
            /\ Unreferenced(monitor)
    /\ ReturnFrame

\* parse_clear after monitor.stop()
ParseClearStopped ==
    /\ cpc = "stop_done"
    /\ ~cctor
    /\ ccmd = "clear"
    /\ IF cexc
       THEN /\ cpc' = "cmd_done"
            /\ monitor' = monitor
            /\ Kept
       ELSE /\ cpc' = "clear_rpc"
            /\ monitor' = NoMon
            /\ Unreferenced(monitor)
    /\ ReturnFrame

\* parse_clear: client.remove_all_captures()
RemoveAllCaptures ==
    /\ cpc = "clear_rpc"
    /\ \E ok \in RpcOutcomes :
          IF ok
          THEN /\ sessions' = {}
               /\ cexc' = cexc
          ELSE /\ sessions' = sessions
               /\ cexc' = TRUE
    /\ cpc' = "cmd_done"
    /\ UNCHANGED <<mgrVars, cm, cctor, cid, cfail, connected, srv_next_id, objVars,
                   pipeVars, wpc, deinit_count>>
    /\ CallFrame

\* self.monitor and (self.monitor.get_capture_id() == id)
IsMonitor(id) == monitor # NoMon /\ capture_id[monitor] = id

\* get_mon_row raises AttributeError when self.t is None or when the
\* counters were never assigned
GetMonRowRaises(m) == t[m] = "none" \/ ~cnt_set[m]

\* get_mon_row: the id, the state of the thread and the two counters of the
\* monitor (the port lists are left out)
GetMonRow(m) ==
    [id |-> capture_id[m],
     src |-> "monitor",
     status |-> IF IsAlive(m) THEN "ACTIVE" ELSE "DEAD",
     pkts |-> pkt_count[m],
     bytes |-> byte_count[m]]

\* the 'count' and 'bytes' the server reports for a session
SnapElems == {[count |-> 1, bytes |-> 100]}

\* the row parse_show builds from an element of the reply
CapRow(id, elem) ==
    [id |-> id,
     src |-> "snapshot",
     status |-> "ACTIVE",
     pkts |-> elem.count,
     bytes |-> elem.bytes]

\* a parse_show that builds every row from the reply
ParseShow_AllFromReply ==
    /\ cpc = "dispatch"
    /\ ccmd = "show"
    /\ \E ok \in RpcOutcomes :
          IF ok
          THEN /\ captures' = sessions
               /\ \E data \in [captures' -> SnapElems] :
                     /\ mon_table' = {}
                     /\ cap_table' = {CapRow(id, data[id]) : id \in captures'}
               /\ cexc' = cexc
          ELSE /\ cexc' = TRUE
               /\ UNCHANGED <<captures, mon_table, cap_table>>
    /\ cpc' = "cmd_done"
    /\ UNCHANGED <<mgrVars, cm, cctor, cid, cfail, connected, srvVars, objVars,
                   pipeVars, wpc, deinit_count>>
    /\ UNCHANGED <<ccmd, ctype, cmd_lock, cports>>
    /\ CmdFrame

\* parse_show: the status RPC, then the loop over the reply; an exception
\* of the RPC or of get_mon_row leaves parse_show before anything is printed
ParseShow ==
    /\ cpc = "dispatch"
    /\ ccmd = "show"
    /\ \E ok \in RpcOutcomes :
          IF ok
          THEN /\ captures' = sessions
               /\ \E data \in [captures' -> SnapElems] :
                     IF \E id \in captures' : IsMonitor(id) /\ GetMonRowRaises(monitor)
                     THEN /\ cexc' = TRUE
                          /\ UNCHANGED <<mon_table, cap_table>>
                     ELSE /\ mon_table' =
                                {GetMonRow(monitor) : id \in {i \in captures' : IsMonitor(i)}}
                          /\ cap_table' =
                                {CapRow(id, data[id]) : id \in {i \in captures' : ~IsMonitor(i)}}
                          /\ cexc' = cexc
          ELSE /\ cexc' = TRUE
               /\ UNCHANGED <<captures, mon_table, cap_table>>
    /\ cpc' = "cmd_done"
    /\ UNCHANGED <<mgrVars, cm, cctor, cid, cfail, connected, srvVars, objVars,
                   pipeVars, wpc, deinit_count>>
    /\ UNCHANGED <<ccmd, ctype, cmd_lock, cports>>
    /\ CmdFrame

\* ------------------------------------------------------ the environment
EnvFrame ==
    UNCHANGED <<mgrVars, cmdVars, cmd_lock, srvVars, objVars, pipeVars, cntVars,
                thrVars, deinit_count, lateVars>>

\* the connection to the server is lost
Disconnect ==
    /\ connected
    /\ connected' = FALSE
    /\ EnvFrame

\* the user reconnects: a console command, so the command thread is idle
Reconnect ==
    /\ ~connected
    /\ cpc = "idle"
    /\ cmd_lock = LockFree
    /\ connected' = TRUE
    /\ EnvFrame

Command ==
    \/ ConsolePrecmd
    \/ ConsoleStop
    \/ ConsolePostcmd
    \/ ParseMonitorStart
    \/ ParseMonitorStartStopped
    \/ MonitorInit
    \/ StartCapture
    \/ StartWriterStdout
    \/ StartWriterPipe
    \/ StartWriterPipeFails
    \/ StartThread
    \/ StopThread
    \/ StopJoin
    \/ StopWriter
    \/ StopTakeId
    \/ StopStatus
    \/ StopCapture
    \/ CtorReraise
    \/ ParseMonitorStop
    \/ ParseMonitorStopStopped
    \/ ParseClear
    \/ ParseClearStopped
    \/ RemoveAllCaptures
    \/ ParseShow

Next ==
    \/ Command
    \/ \E m \in Mon : Worker(m)
    \/ Disconnect
    \/ Reconnect

Spec == Init /\ [][Next]_vars

\* the scheduler runs every thread that can take a step
FairSpec ==
    /\ Spec
    /\ \A m \in Mon : WF_vars(Worker(m))
    /\ WF_vars(Command)

\* ------------------------------------------- the pipe writer on its own
\* CaptureMonitorWriterPipe objects driven directly: each is constructed
\* once and deinit is then called on it up to MaxDeinits times.  The fields
\* of writer object m are fifo[m], fifo_name[m] and its file in fs;
\* writer[m] tells whether the constructor returned the object; cexc tells
\* whether a deinit let an exception out.
PipeFrame ==
    UNCHANGED <<mgrVars, cpc, ccmd, ctype, cm, cctor, cid, cfail, cports, captures,
                mon_table, cap_table, cmd_lock, connected, srvVars, t, capture_id,
                active, cntVars, thrVars, lateVars>>

\* no constructor has run on writer object m
PipeFresh(m) == ~fifo_name[m] /\ deinit_count[m] = 0

\* __init__ runs to its end
PipeNew(m) ==
    /\ PipeFresh(m)
    /\ fs' = fs \cup {m}
    /\ fifo' = [fifo EXCEPT ![m] = TRUE]
    /\ fifo_name' = [fifo_name EXCEPT ![m] = TRUE]
    /\ writer' = [writer EXCEPT ![m] = "pipe"]
    /\ UNCHANGED <<deinit_count, cexc>>
    /\ PipeFrame

\* __init__ raises at a step; its except clauses call deinit
PipeNewFails(m) ==
    /\ PipeFresh(m)
    /\ \E step \in PipeSteps :
       \E exc \in PipeRaises(step) :
          LET w == PipeAfterFailure(step, exc) IN
             /\ fs' = IF w.file THEN fs \cup {m} ELSE fs \ {m}
             /\ fifo' = [fifo EXCEPT ![m] = w.fifo]
             /\ fifo_name' = [fifo_name EXCEPT ![m] = w.fifo_name]
             /\ deinit_count' = [deinit_count EXCEPT
                   ![m] = IF PipeCaught(exc) THEN @ + 1 ELSE @]
             /\ cexc' = (cexc \/ (PipeCaught(exc) /\ PipeDeinitEscapes(TRUE, PipeCreated(step))))
    /\ writer' = writer
    /\ PipeFrame

\* a call of deinit on a writer whose constructor ran
PipeDeinitCall(m) ==
    /\ ~PipeFresh(m)
    /\ deinit_count[m] < MaxDeinits
    /\ LET w == PipeDeinit(fifo[m], fifo_name[m], m \in fs) IN
          /\ fs' = IF w.file THEN fs ELSE fs \ {m}
          /\ fifo' = [fifo EXCEPT ![m] = w.fifo]
          /\ fifo_name' = [fifo_name EXCEPT ![m] = w.fifo_name]
    /\ deinit_count' = [deinit_count EXCEPT ![m] = @ + 1]
    /\ cexc' = (cexc \/ PipeDeinitEscapes(fifo_name[m], m \in fs))
    /\ writer' = writer
    /\ PipeFrame

PipeNext ==
    \E m \in Mon : PipeNew(m) \/ PipeNewFails(m) \/ PipeDeinitCall(m)

PipeSpec == Init /\ [][PipeNext]_vars

\* ------------------------------------------------------------ the claims
\* positions of the worker at which it uses the RPC channel
Fetching(m) == wpc[m] \in {"conn", "fetch"}

\* positions of the command thread inside CaptureMonitor.__start
InStart == cpc \in {"start_rpc", "start_writer", "start_thread"}

\* C1: at every instant at most one worker thread is alive and at most one
\* monitor holds a writer that was not deinit'ed, and while a new monitor is
\* in its start sequence (RPC, writer, thread) no other monitor has a live
\* worker or a writer.
C1_SingleMonitor ==
    /\ Cardinality({m \in Mon : IsAlive(m)}) <= 1
    /\ Cardinality({m \in Mon : writer[m] # "none"}) <= 1
    /\ InStart => \A m \in Mon \ {cm} : ~IsAlive(m) /\ writer[m] = "none"

\* a monitor start that stopped the monitor it held (its __stop took the
\* capture id) and is now starting the thread of the new one
C1_Witness ==
    /\ ccmd = "mon_start"
    /\ cpc = "start_thread"
    /\ cid # NoId
    /\ cm = 2

\* C2: when stop() returns or raises, the worker of the monitor is not
\* running, its writer is dropped and deinit() ran exactly once on it; no
\* writer ever sees a second deinit().
C2_StopJoinsDeinitsOnce ==
    /\ (cpc = "stop_done" /\ ~cctor) =>
          /\ ~IsAlive(cm)
          /\ writer[cm] = "none"
          /\ deinit_count[cm] = 1
    /\ \A m \in Mon : deinit_count[m] <= 1

\* a second stop() (the id was already cleared by the first, which raised)
\* on a monitor whose worker had ended on an error
C2_Witness ==
    /\ cpc = "stop_done"
    /\ ~cctor
    /\ cid = NoId
    /\ werr[cm]

\* C3: a worker is at its connectivity check or in its fetch RPC only while
\* it holds the command lock, so never while the command thread holds it.
C3_FetchUnderLock ==
    /\ \A m \in Mon : Fetching(m) => cmd_lock = LockOf(m)
    /\ cmd_lock = LockCmd => \A m \in Mon : ~Fetching(m)

\* a live worker polling the lock while a command holds it
C3_Witness ==
    \E m \in Mon : wpc[m] = "lock" /\ active[m] /\ cmd_lock = LockCmd /\ cpc = "dispatch"

\* the worker holds the lock only between its acquire and its finally clause
C4_HeldOnlyInTry ==
    \A m \in Mon : cmd_lock = LockOf(m) => wpc[m] \in {"conn", "fetch", "unlock"}

\* a step of worker m changes the lock only by acquiring it or by releasing
\* it while holding it
C4_ReleaseOnlyIfHeld ==
    \A m \in Mon :
       (wpc'[m] # wpc[m] /\ cmd_lock' # cmd_lock) =>
          \/ cmd_lock = LockFree /\ cmd_lock' = LockOf(m)
          \/ cmd_lock = LockOf(m) /\ cmd_lock' = LockFree

\* C4: the worker holds the command lock only from the acquire to the
\* finally clause (never while sleeping, in the writer, or after it ended),
\* every exit of the fetch step releases it, and a worker that does not hold
\* the lock (its __lock returned False) releases nothing.
C4_LockDiscipline ==
    /\ []C4_HeldOnlyInTry
    /\ [][C4_ReleaseOnlyIfHeld]_vars

\* the finally clause about to release the lock after a failed fetch
C4_Witness ==
    \E m \in Mon : wpc[m] = "unlock" /\ wexc[m] /\ connected /\ cmd_lock = LockOf(m)

\* C5: under fair scheduling a stop() waiting in join gets past it.
C5_StopCompletes ==
    (cpc = "stop_join") ~> (cpc # "stop_join")

\* stop() waits in join, called by a command that holds the lock the worker
\* is retrying
C5_Witness ==
    /\ cpc = "stop_join"
    /\ cmd_lock = LockCmd
    /\ wpc[cm] = "lock"

\* C6: once the worker ended in an except clause, is_active() is false.
C6_InactiveAfterError ==
    \A m \in Mon : (wpc[m] = "done" /\ werr[m]) => ~active[m]

\* the counters are what the accepted batches add up to
C7_CountersAreSums ==
    \A m \in Mon :
       cnt_set[m] => (pkt_count[m] = sum_k[m] /\ byte_count[m] = sum_b[m])

\* the counters of a monitor do not decrease
C7_CountersGrow ==
    \A m \in Mon :
       (cnt_set[m] /\ cnt_set'[m]) =>
          (pkt_count'[m] >= pkt_count[m] /\ byte_count'[m] >= byte_count[m])

\* C7: a monitor's counters never decrease, and pkt_count is the number of
\* packets of the batches handle_pkts accepted and byte_count the sum of the
\* byte counts it returned for them.
C7_Counters ==
    /\ []C7_CountersAreSums
    /\ [][C7_CountersGrow]_vars

\* a second batch reaches handle_pkts after a first one was counted, with
\* more bytes than packets
C7_Witness ==
    \E m \in Mon :
       /\ wpc[m] = "handle"
       /\ pkt_count[m] > 0
       /\ byte_count[m] > pkt_count[m]

\* C8: from the fetch to the skip, a cycle leaves the counters alone, and
\* the step after an empty fetch goes back to the loop test, not to
\* handle_pkts and not out of the thread.
C8_EmptyFetchSkips ==
    [][\A m \in Mon :
          /\ (wpc[m] \in {"fetch", "unlock", "pkts"}) =>
                (pkt_count'[m] = pkt_count[m] /\ byte_count'[m] = byte_count[m])
          /\ (wpc[m] = "pkts" /\ pkts[m] = <<>> /\ wpc'[m] # wpc[m]) =>
                wpc'[m] = "while"]_vars

\* an empty fetch that was skipped, after batches that were counted
C8_Witness ==
    \E m \in Mon : wpc[m] = "pkts" /\ pkts[m] = <<>> /\ pkt_count[m] > 0

\* C9: when the pipe writer's construction failed and the constructor of
\* the monitor has run its rollback, the pipe file does not exist.
C9_NoPipeFileAfterFailure ==
    (cctor /\ cfail = "writer" /\ cpc \in {"stop_done", "cmd_done"}) => cm \notin fs

\* C10: when the constructor re-raises, the monitor has no live worker, and
\* no writer, no open descriptor and no pipe file of it is left.  (Whether
\* the session is still on the server also depends on the server being
\* reachable during the rollback; the parts stated here do not.)
C10_RollbackComplete ==
    (cctor /\ cpc = "stop_done") =>
       /\ ~IsAlive(cm)
       /\ writer[cm] = "none"
       /\ ~fifo[cm]
       /\ cm \notin fs

\* the stop-session RPC is about to be issued only for an id the status reply
\* of this stop() lists
C11_StopRpcForListedId ==
    cpc = "stop_rpc" => (cid # NoId /\ cid \in captures)

\* the status query follows a connectivity check that found the client
\* connected, the stop-session RPC follows the status query, and a stop()
\* that finds the client disconnected returns without touching the server
C11_StopRpcOrder ==
    /\ (cpc' = "stop_status" /\ cpc # "stop_status") =>
          (cpc = "stop_id" /\ connected)
    /\ (cpc' = "stop_rpc" /\ cpc # "stop_rpc") =>
          (cpc = "stop_status" /\ captures' = sessions /\ cid \in captures')
    /\ (cpc = "stop_id" /\ ~connected /\ cpc' # cpc) =>
          (cpc' = "stop_done" /\ UNCHANGED <<srvVars, captures>>)

\* C11: stop() issues the stop-session RPC only after its connectivity check
\* found the client connected and its own status query listed the monitor's
\* session id; a stop() that finds the client disconnected issues no RPC; a
\* stop() that finds the session id already cleared (a second stop() on the
\* monitor) never issues the stop-session RPC.
C11_StopRpcGuarded ==
    /\ []C11_StopRpcForListedId
    /\ [][C11_StopRpcOrder]_vars

\* a second stop() on a monitor (the first one raised, the id is cleared)
\* whose status query listed the session the first one left, returning
\* without a stop-session RPC
C11_Witness ==
    /\ cpc = "stop_done"
    /\ ~cctor
    /\ ~cexc
    /\ cid = NoId
    /\ deinit_count[cm] = 1
    /\ captures # {}

\* C12: whenever __stop is about to issue its status query or its
\* stop-session RPC, and whenever an exception of one of them is on its way
\* to the caller or has reached the command loop, the monitor has no live
\* worker, no writer and no session id.
C12_LocalCleanupFirst ==
    (\/ cpc \in {"stop_status", "stop_rpc"}
     \/ cpc \in {"stop_done", "cmd_done"} /\ cexc /\ cm # NoMon) =>
       /\ ~IsAlive(cm)
       /\ writer[cm] = "none"
       /\ capture_id[cm] = NoId

\* stop() of a monitor whose worker was joined raised in a remote call, the
\* session is still on the server
C12_Witness ==
    /\ cpc = "stop_done"
    /\ ~cctor
    /\ cexc
    /\ cid \in sessions
    /\ wpc[cm] = "done"
    /\ t[cm] = "none"
    /\ deinit_count[cm] = 1

\* a step that is a call of deinit on writer m after an earlier call
C13_SecondCall(m) ==
    deinit_count[m] >= 1 /\ deinit_count'[m] = deinit_count[m] + 1

\* the call leaves the fields and the file of writer m as they are
C13_NoChange(m) ==
    /\ fifo'[m] = fifo[m]
    /\ fifo_name'[m] = fifo_name[m]
    /\ (m \in fs') = (m \in fs)

\* C13 as claimed: a second deinit() changes nothing and attempts no close
\* and no unlink, and no deinit() (the ones the constructor makes after a
\* partial construction included) lets an exception out.
C13_SecondCallAttemptsNothing ==
    /\ []~cexc
    /\ [][\A m \in Mon :
             C13_SecondCall(m) =>
                /\ C13_NoChange(m)
                /\ ~PipeDeinitCloses(fifo[m])
                /\ ~PipeDeinitUnlinks(fifo_name[m])]_vars

\* C13 amended: a second deinit() changes nothing and attempts no close; it
\* attempts an unlink only when the unlink of the first call failed because
\* the fifo was never created, and that retry fails the same way and is
\* swallowed; no deinit() lets an exception out.
C13_DeinitIdempotent ==
    /\ []~cexc
    /\ [][\A m \in Mon :
             C13_SecondCall(m) =>
                /\ C13_NoChange(m)
                /\ ~PipeDeinitCloses(fifo[m])
                /\ PipeDeinitUnlinks(fifo_name[m]) => m \notin fs]_vars

\* deinit ran twice on a writer that was constructed in full and twice on
\* one whose mkfifo failed
C13_Witness ==
    \E m1, m2 \in Mon :
       /\ writer[m1] = "pipe" /\ deinit_count[m1] = 2 /\ ~fifo_name[m1]
       /\ writer[m2] = "none" /\ deinit_count[m2] = 2 /\ fifo_name[m2]

\* a 'monitor start' whose command line gave neither port list
C14_NoPorts == ccmd = "mon_start" /\ ~cports

\* the command is either not yet parsed or already rejected: it is in no
\* stop(), no constructor and no RPC, and raised nothing
C14_Rejected ==
    C14_NoPorts => (cpc \in {"dispatch", "cmd_done"} /\ cm = NoMon /\ ~cexc)

\* while the command runs, the manager, the server, the fields of every
\* monitor and every pipe stay as they are, and the parse step does nothing
\* but return
C14_NothingMutated ==
    C14_NoPorts =>
       /\ UNCHANGED <<mgrVars, srvVars, objVars, pipeVars, deinit_count>>
       /\ (cpc = "dispatch" /\ cpc' # cpc) => cpc' = "cmd_done"

\* C14: 'monitor start' with neither a tx nor an rx port list is rejected
\* without mutating state: the held monitor is not stopped and keeps running,
\* no RPC is issued and no monitor is created.
C14_NoPortsRejected ==
    /\ []C14_Rejected
    /\ [][C14_NothingMutated]_vars

\* the command was rejected while the manager holds a monitor whose worker
\* is running
C14_Witness ==
    /\ C14_NoPorts
    /\ cpc = "cmd_done"
    /\ monitor # NoMon
    /\ IsAlive(monitor)
    /\ active[monitor]

\* the remove-all RPC is about to be issued only when the manager holds no
\* monitor and no monitor has a live worker or a writer, and a clear that
\* ended without an error left no monitor and no session
C15_ClearState ==
    /\ cpc = "clear_rpc" =>
          /\ monitor = NoMon
          /\ \A m \in Mon : ~IsAlive(m) /\ writer[m] = "none"
    /\ (ccmd = "clear" /\ cpc = "cmd_done" /\ ~cexc) =>
          (monitor = NoMon /\ sessions = {})

\* the remove-all RPC follows either the test that found no monitor or a
\* stop() that returned, and a stop() that raised ends the command with the
\* server untouched
C15_ClearOrder ==
    /\ (cpc' = "clear_rpc" /\ cpc # "clear_rpc") =>
          \/ cpc = "dispatch" /\ monitor = NoMon
          \/ cpc = "stop_done" /\ ~cexc
    /\ (ccmd = "clear" /\ cpc = "stop_done" /\ cexc /\ cpc' # cpc) =>
          (cpc' = "cmd_done" /\ UNCHANGED srvVars)

\* C15: clear stops the held monitor (worker joined, writer deinit'ed and
\* dropped) before it issues the remove-all RPC; a clear that completes
\* without error leaves the manager with no monitor and the server with no
\* session; when stop() raises, the remove-all RPC is not issued.
C15_ClearStopsFirst ==
    /\ []C15_ClearState
    /\ [][C15_ClearOrder]_vars

\* a clear that stopped a monitor with a started worker and then emptied
\* the server
C15_Witness ==
    /\ ccmd = "clear"
    /\ cpc = "cmd_done"
    /\ ~cexc
    /\ cm # NoMon
    /\ cid # NoId
    /\ sessions = {}

\* the worker of m ended in an except clause of __thread_cb
C16_Dead(m) == wpc[m] = "done" /\ werr[m]

\* the step in which the worker of m ends on an error counts nothing
C16_FailedBatchNotCounted(m) ==
    (wpc[m] # "done" /\ wpc'[m] = "done" /\ werr'[m]) =>
       (pkt_count'[m] = pkt_count[m] /\ byte_count'[m] = byte_count[m])

\* until the manager drops the monitor, a dead worker stays dead, the
\* counters keep their values, and the session id changes only in the step
\* of stop() that takes it
C16_StaysDead(m) ==
    (C16_Dead(m) /\ wpc'[m] # "nostart") =>
       /\ C16_Dead(m)'
       /\ pkt_count'[m] = pkt_count[m]
       /\ byte_count'[m] = byte_count[m]
       /\ capture_id'[m] # capture_id[m] => (cpc = "stop_id" /\ cm = m)

\* C16: an error in the worker loop ends the thread for good: it makes no
\* further fetch or writer call, no worker is started in its place, the
\* counters stay at the values they had (the batch whose handle_pkts raised
\* is not counted), and the session id stays set until stop() takes it.
C16_ErrorIsTerminal ==
    [][\A m \in Mon : C16_FailedBatchNotCounted(m) /\ C16_StaysDead(m)]_vars

\* the worker died after it had counted packets; the manager still holds
\* the monitor with its session id and the console is idle
C16_Witness ==
    \E m \in Mon :
       /\ C16_Dead(m)
       /\ monitor = m
       /\ pkt_count[m] > 0
       /\ capture_id[m] # NoId
       /\ cpc = "idle"

\* the rows the step leaves for session id: one row, in the monitor view with
\* the monitor's own counters when the id is the monitor's, in the
\* standalone view and built from the reply otherwise
C17_Placed(id) ==
    IF IsMonitor(id)
    THEN /\ \E r \in mon_table' :
               /\ r.id = id
               /\ r.src = "monitor"
               /\ r.pkts = pkt_count[monitor]
               /\ r.bytes = byte_count[monitor]
         /\ Cardinality({r \in mon_table' : r.id = id}) = 1
         /\ \A r \in cap_table' : r.id # id
    ELSE /\ \E r \in cap_table' : r.id = id /\ r.src = "snapshot"
         /\ Cardinality({r \in cap_table' : r.id = id}) = 1
         /\ \A r \in mon_table' : r.id # id

\* a step of parse_show
C17_ShowStep == cpc = "dispatch" /\ ccmd = "show" /\ cpc' # cpc

\* C17: in the show command every session of the status reply (captures
\* after the step) is rendered
\* in exactly one view: the monitor's own session in the monitor view, with
\* the monitor's pkt_count and byte_count, every other session in the
\* standalone view, from the reply.
C17_ShowPlacesSessions ==
    [][C17_ShowStep => \A id \in captures' : C17_Placed(id)]_vars

\* the same for a show that did not raise: what the loop of parse_show does
\* when get_mon_row returns
C17_PlacedWhenShown ==
    [][(C17_ShowStep /\ ~cexc') => \A id \in captures' : C17_Placed(id)]_vars

\* a show that rendered the monitor's session, with packets counted, next to
\* a session no monitor owns
C17_Shown ==
    /\ ccmd = "show"
    /\ cpc = "cmd_done"
    /\ \E r \in mon_table : r.pkts > 0
    /\ cap_table # {}

\* a live worker has a session id, one the server handed out, and no other
\* monitor has the same
C18_LiveWorkerHasOwnId ==
    \A m \in Mon :
       IsAlive(m) =>
          /\ capture_id[m] # NoId
          /\ capture_id[m] \in 1..srv_next_id
          /\ \A o \in Mon \ {m} : capture_id[o] # capture_id[m]

\* the field is set only by the monitor's own start RPC, to the id that RPC
\* returned; the worker is started with the id set; the id is cleared only
\* when the worker is not alive
C18_IdLifetime ==
    \A m \in Mon :
       /\ (capture_id'[m] # capture_id[m] /\ capture_id'[m] # NoId) =>
             /\ cpc = "start_rpc" /\ cm = m
             /\ srv_next_id' = srv_next_id + 1
             /\ capture_id'[m] = srv_next_id'
       /\ (~IsAlive(m) /\ IsAlive(m)') => capture_id[m] # NoId
       /\ (capture_id[m] # NoId /\ capture_id'[m] = NoId) => ~IsAlive(m)

\* C18: every fetch RPC of a worker carries the session id the monitor's own
\* start RPC returned: the id is set before the worker is started and
\* cleared by stop() only after the join, so a fetch never carries None or
\* the id of another monitor's session.
C18_FetchCarriesOwnId ==
    /\ []C18_LiveWorkerHasOwnId
    /\ [][C18_IdLifetime]_vars

\* the worker of the second monitor is in its fetch RPC while stop() waits
\* in join
C18_Witness ==
    \E m \in Mon :
       /\ wpc[m] = "fetch"
       /\ capture_id[m] = 2
       /\ cpc = "stop_join"
       /\ cm = m

\* a live worker has a writer on which deinit never ran
C19_LiveWorkerHasWriter ==
    \A m \in Mon : IsAlive(m) => (writer[m] # "none" /\ deinit_count[m] = 0)

\* deinit runs on the writer of a monitor, and the writer is dropped, only
\* when the worker of the monitor is not alive
C19_DeinitAfterEnd ==
    \A m \in Mon :
       (deinit_count'[m] > deinit_count[m] \/ writer'[m] # writer[m]) => ~IsAlive(m)

\* C19: the worker never calls periodic_check or handle_pkts on a writer
\* whose deinit() has run: stop() calls deinit only after the worker has
\* terminated.
C19_NoWriterUseAfterDeinit ==
    /\ []C19_LiveWorkerHasWriter
    /\ [][C19_DeinitAfterEnd]_vars

\* stop() joined a worker that had handed packets to the writer, and has
\* then deinit'ed the writer
C19_Witness ==
    /\ cpc = "stop_id"
    /\ wpc[cm] = "done"
    /\ ~werr[cm]
    /\ t[cm] = "none"
    /\ pkt_count[cm] > 0
    /\ deinit_count[cm] = 1

\* the worker made at most one fetch and one handle_pkts call with the flag
\* cleared
C20_AtMostOneLate ==
    \A m \in Mon : late_fetch[m] <= 1 /\ late_handle[m] <= 1

\* with the flag cleared the worker does not enter __sleep, the first
\* statement of a loop iteration, and leaves the loop test for good
C20_NoNewIteration ==
    \A m \in Mon :
       ~active[m] =>
          /\ ~(wpc[m] # "sleep" /\ wpc'[m] = "sleep")
          /\ (wpc[m] = "while" /\ wpc'[m] # wpc[m]) => wpc'[m] = "done"

\* C20: after stop() cleared the active flag the worker issues at most one
\* more fetch RPC and makes at most one more handle_pkts call (with its
\* counter update) before it terminates, and starts no further loop
\* iteration.
C20_BoundedAfterStop ==
    /\ []C20_AtMostOneLate
    /\ [][C20_NoNewIteration]_vars

\* a worker that ended after one fetch and one handle_pkts call made with
\* the flag cleared, while stop() waits in join
C20_Witness ==
    \E m \in Mon :
       /\ wpc[m] = "done"
       /\ ~werr[m]
       /\ late_fetch[m] = 1
       /\ late_handle[m] = 1
       /\ pkt_count[m] > 0
       /\ cpc = "stop_join"

\* the manager holds a monitor only once its constructor has returned
\* (parse_monitor_start, line 536): its counters are assigned by then
C21_CountersSetAfterCtor ==
    monitor # NoMon => cnt_set[monitor]

\* a step of parse_show that reaches get_mon_row: the status reply lists the
\* session of the held monitor
C21_ShowReadsMonRow ==
    /\ C17_ShowStep
    /\ \E id \in captures' : IsMonitor(id)

\* get_mon_row reads pkt_count and byte_count only when they are assigned
C21_ShowReadsSetCounters ==
    C21_ShowReadsMonRow => cnt_set[monitor]

\* C21: once the constructor of CaptureMonitor has returned successfully the
\* monitor's pkt_count and byte_count are initialised, and in every
\* interleaving of the new worker with the command thread a show command
\* that renders the monitor row never reads a counter that is not yet set.
C21_CountersInitialised ==
    /\ []C21_CountersSetAfterCtor
    /\ [][C21_ShowReadsSetCounters]_vars

\* the read alone: no show reaches get_mon_row before the worker has
\* executed lines 346-347
C21_NoUnsetRead ==
    [][C21_ShowReadsSetCounters]_vars

\* a show that reached get_mon_row while the worker of the held monitor was
\* still before line 346
C21_UnsetRead ==
    /\ ccmd = "show"
    /\ cpc = "cmd_done"
    /\ cexc
    /\ monitor # NoMon
    /\ wpc[monitor] = "init"
    /\ ~cnt_set[monitor]
    /\ capture_id[monitor] \in captures

====
